---- MODULE Spec2Model ----
(***************************************************************************)
(* Client-side router of packages/kit (runtime/client/router.js).          *)
(*                                                                         *)
(* Strings the router computes on (pathnames, the base, search strings,    *)
(* hashes, ids) are sequences of one-character strings, so that slicing,   *)
(* prefix tests, percent-decoding and URL resolution are computed, not     *)
(* assumed.  A URL object is a record [origin, pathname, search, hash].    *)
(***************************************************************************)
EXTENDS Integers, Sequences, FiniteSets, TLC

VARIABLES
    base,            \* this.base (constructor option)
    trailing_slash,  \* this.trailing_slash (constructor option)
    enabled,         \* this.enabled (undefined before init: falsy)
    inited,          \* init(renderer) has run: this.renderer bound, listeners installed
    entries,         \* the session history: sequence of [url, state]
    index,           \* position of the current entry; location is entries[index].url
    page,            \* {x: pageXOffset, y: pageYOffset}
    scroll_timer,    \* the number of pending timeouts of the scroll listener
    mousemove_timeout, \* the pending timeouts of handle_mousemove, oldest first: the events' anchors
    tasks,           \* promises of the async calls in flight, by slot
    native,          \* navigation handed to the browser and not yet carried out
    unloaded,        \* the document has been replaced by a full page load
    op,              \* the handler that ran last, with the history position it started at
    fx,              \* the calls that handler made, in order
    budget,          \* handler runs the behaviour may still take
    probe_url,       \* SpecPure: the URL under test
    probe_out,       \* SpecPure: parse(probe_url)
    probe_norm       \* SpecPure: the paths produced by the trailing-slash step

configVars == <<base, trailing_slash>>
routerVars == <<enabled, inited, entries, index, page, scroll_timer, mousemove_timeout,
                tasks, native, unloaded, op, fx, budget>>
probeVars  == <<probe_url, probe_out, probe_norm>>
vars       == <<configVars, routerVars, probeVars>>

----------------------------------------------------------------------------
(* Bounds of the model *)

\* longest pathname tail (after the leading "/") SpecPure enumerates
MaxLen == 4
\* most handler runs (calls of the API, events, timeouts, settled promises) of a
\* behaviour of Spec
MaxSteps == 3
\* largest vertical scroll offset
MaxScroll == 1

----------------------------------------------------------------------------
(* Strings *)

StartsWith(s, p) ==
    /\ Len(p) <= Len(s)
    /\ SubSeq(s, 1, Len(p)) = p

EndsWith(s, c) == Len(s) > 0 /\ s[Len(s)] = c

\* s.slice(n)
Slice(s, n) == SubSeq(s, n + 1, Len(s))

\* s.slice(0, -1)
DropLast(s) == SubSeq(s, 1, Len(s) - 1)

Includes(s, c) == \E i \in 1..Len(s) : s[i] = c

\* index of the first c in s, or 0
RECURSIVE IndexOf(_, _, _)
IndexOf(s, c, i) ==
    IF i > Len(s) THEN 0
    ELSE IF s[i] = c THEN i
    ELSE IndexOf(s, c, i + 1)

\* s.split(c): the pieces of s between occurrences of c
RECURSIVE Split(_, _)
Split(s, c) ==
    LET i == IndexOf(s, c, 1)
    IN  IF i = 0 THEN <<s>>
        ELSE <<SubSeq(s, 1, i - 1)>> \o Split(Slice(s, i), c)

\* pieces.join(c)
RECURSIVE Join(_, _)
Join(pieces, c) ==
    IF Len(pieces) = 0 THEN <<>>
    ELSE IF Len(pieces) = 1 THEN pieces[1]
    ELSE pieces[1] \o <<c>> \o Join(Tail(pieces), c)

\* a.split('/').pop()
LastSegment(s) ==
    LET pieces == Split(s, "/") IN pieces[Len(pieces)]

----------------------------------------------------------------------------
(* Percent-encoding, as far as the characters of the model go *)

HexDigits == {"2", "F"}

\* The byte %h1h2 as a character: 0x22 and 0x2F are ASCII; 0xF2 opens a four-byte
\* UTF-8 sequence whose continuation bytes (0x80-0xBF) cannot follow here, and 0xFF
\* is no UTF-8 byte: decodeURIComponent throws URIError on both.
DecodeByte(h1, h2) ==
    IF h1 = "2" /\ h2 = "2" THEN "\""
    ELSE IF h1 = "2" /\ h2 = "F" THEN "/"
    ELSE "invalid"

\* decodeURIComponent(s): [ok |-> TRUE, val |-> decoded] or [ok |-> FALSE] (URIError)
RECURSIVE DecodeURIComponent(_)
DecodeURIComponent(s) ==
    IF Len(s) = 0 THEN [ok |-> TRUE, val |-> <<>>]
    ELSE IF s[1] # "%" THEN
        LET rest == DecodeURIComponent(Tail(s))
        IN  IF rest.ok THEN [ok |-> TRUE, val |-> <<s[1]>> \o rest.val]
            ELSE [ok |-> FALSE, val |-> <<>>]
    ELSE IF Len(s) < 3 \/ s[2] \notin HexDigits \/ s[3] \notin HexDigits
              \/ DecodeByte(s[2], s[3]) = "invalid"
        THEN [ok |-> FALSE, val |-> <<>>]
    ELSE
        LET rest == DecodeURIComponent(Slice(s, 3))
        IN  IF rest.ok THEN [ok |-> TRUE, val |-> <<DecodeByte(s[2], s[3])>> \o rest.val]
            ELSE [ok |-> FALSE, val |-> <<>>]

\* The URL parser's percent-encoding of a path segment: of the characters a decoded
\* path can hold here only the double quote is in the path percent-encode set.
RECURSIVE EncodePath(_)
EncodePath(s) ==
    IF Len(s) = 0 THEN <<>>
    ELSE (IF s[1] = "\"" THEN <<"%", "2", "2">> ELSE <<s[1]>>) \o EncodePath(Tail(s))

----------------------------------------------------------------------------
(* URLSearchParams *)

\* new URLSearchParams(search): the list of <<name, value>> pairs
QueryPairs(search) ==
    LET q      == IF Len(search) > 0 /\ search[1] = "?" THEN Tail(search) ELSE search
        pieces == SelectSeq(Split(q, "&"), LAMBDA p : Len(p) > 0)
        Pair(p) == LET i == IndexOf(p, "=", 1)
                   IN  IF i = 0 THEN <<p, <<>>>>
                       ELSE <<SubSeq(p, 1, i - 1), Slice(p, i)>>
    IN  [k \in 1..Len(pieces) |-> Pair(pieces[k])]

\* `${query}`: URLSearchParams.prototype.toString
QueryString(query) ==
    Join([k \in 1..Len(query) |-> query[k][1] \o <<"=">> \o query[k][2]], "&")

----------------------------------------------------------------------------
(* URLs, ownership and parse *)

SelfOrigin  == "https://app"
OtherOrigin == "https://other"

Url(o, p, s, h) == [origin |-> o, pathname |-> p, search |-> s, hash |-> h]

\* this.routes: each pattern matches its path with an optional trailing slash
routes == << <<"/">>, <<"/", "x">> >>

\* pattern.test(path)
Test(pattern, path) ==
    \/ path = pattern
    \/ path = pattern \o <<"/">>

\* window.location
Location == entries[index].url

\* history.state
HistoryState == entries[index].state

\* Router.owns
owns(url) ==
    /\ url.origin = Location.origin
    /\ StartsWith(url.pathname, base)

Absent   == [kind |-> "absent",   id |-> <<>>, routes |-> <<>>, path |-> <<>>, query |-> <<>>]
URIError == [kind |-> "URIError", id |-> <<>>, routes |-> <<>>, path |-> <<>>, query |-> <<>>]

Unparsed == [kind |-> "unparsed", id |-> <<>>, routes |-> <<>>, path |-> <<>>, query |-> <<>>]

\* Router.parse: a NavigationInfo, Absent (undefined), or URIError thrown by
\* decodeURIComponent
parse(url) ==
    IF owns(url) THEN
        LET rest    == Slice(url.pathname, Len(base))
            decoded == DecodeURIComponent(IF Len(rest) = 0 THEN <<"/">> ELSE rest)
            query   == QueryPairs(url.search)
        IN  IF decoded.ok THEN
                [kind   |-> "info",
                 id     |-> decoded.val \o <<"?">> \o QueryString(query),
                 routes |-> SelectSeq(routes, LAMBDA pattern : Test(pattern, decoded.val)),
                 path   |-> decoded.val,
                 query  |-> query]
            ELSE URIError
    ELSE Absent

----------------------------------------------------------------------------
(* The trailing-slash step of _navigate *)

Policies == {"never", "always", "ignore"}

\* `incorrect` without the test for a '.' in the final segment
Incorrect_NoDotTest(path, policy) ==
    LET has_trailing_slash == EndsWith(path, "/")
    IN  \/ has_trailing_slash /\ policy = "never"
        \/ ~has_trailing_slash /\ policy = "always"

\* `incorrect` of _navigate, for a path other than '/'
Incorrect(path, policy) ==
    LET has_trailing_slash == EndsWith(path, "/")
    IN  \/ has_trailing_slash /\ policy = "never"
        \/ /\ ~has_trailing_slash
           /\ policy = "always"
           /\ ~Includes(LastSegment(path), ".")

\* info.path after the step
TrailingSlashStep(path, policy) ==
    IF path # <<"/">> /\ Incorrect(path, policy)
    THEN IF EndsWith(path, "/") THEN DropLast(path) ELSE path \o <<"/">>
    ELSE path

\* whether the step rewrites the history entry
Rewrites(path, policy) == path # <<"/">> /\ Incorrect(path, policy)

----------------------------------------------------------------------------
(* URL resolution, as history.pushState/replaceState resolve their url argument *)

\* The URL parser's path state over the pieces of a path: "." and ".." are resolved,
\* other segments percent-encoded
RECURSIVE PathState(_, _)
PathState(out, pieces) ==
    IF Len(pieces) = 0 THEN out
    ELSE
        LET seg  == pieces[1]
            last == Len(pieces) = 1
            next ==
                IF seg = <<".", ".">> THEN
                    (IF Len(out) > 0 THEN DropLast(out) ELSE out)
                        \o (IF last THEN << <<>> >> ELSE <<>>)
                ELSE IF seg = <<".">> THEN
                    out \o (IF last THEN << <<>> >> ELSE <<>>)
                ELSE out \o <<EncodePath(seg)>>
        IN  PathState(next, Tail(pieces))

\* The URL that the string path \o search names relative to the document at loc.
\* [ok |-> FALSE]: the string names no URL, or one of another origin (a string that
\* starts with "//" names a host), and pushState/replaceState throw SecurityError.
Resolve(loc, path, search) ==
    IF StartsWith(path, <<"/", "/">>) THEN
        [ok |-> FALSE, url |-> loc]
    ELSE
        LET dir    == IF StartsWith(path, <<"/">>) THEN <<>>
                      ELSE DropLast(Split(Tail(loc.pathname), "/"))
            rel    == IF StartsWith(path, <<"/">>) THEN Tail(path) ELSE path
            pieces == PathState(dir, Split(rel, "/"))
        IN  [ok  |-> TRUE,
             url |-> Url(loc.origin, <<"/">> \o Join(pieces, "/"), search, <<>>)]

----------------------------------------------------------------------------
(* Browser state the router reads and writes *)

Positions == [x : {0}, y : 0..MaxScroll]

\* a scroll argument that is null or undefined
NoScroll == [x |-> -1, y |-> -1]

\* history.state: null, or an object that may hold 'sveltekit:scroll'
NullState  == [null |-> TRUE,  scroll |-> NoScroll]
EmptyState == [null |-> FALSE, scroll |-> NoScroll]
ScrollState(pos) == [null |-> FALSE, scroll |-> pos]

Entry(url, state) == [url |-> url, state |-> state]

History == [entries |-> entries, index |-> index]

\* history.pushState(state, '', url): entries after the current one are dropped
PushState(h, state, url) ==
    [entries |-> SubSeq(h.entries, 1, h.index) \o <<Entry(url, state)>>,
     index   |-> h.index + 1]

\* replaceState done as pushState
ReplaceState_Pushes(h, state, url) == PushState(h, state, url)

\* history.replaceState(state, '', url)
ReplaceState(h, state, url) ==
    [h EXCEPT !.entries[h.index] = Entry(url, state)]

\* scroll_state()
scroll_state == page

\* a call the handler made
Fx(call, arg) == [call |-> call, arg |-> arg]

Calls(effects, call) == SelectSeq(effects, LAMBDA e : e.call = call)

NoTimer  == <<>>
NoNative == [pending |-> FALSE]

\* an async call whose promise is pending
Task(kind, src, url, info, scroll, hash) ==
    [kind |-> kind, src |-> src, url |-> url, info |-> info, scroll |-> scroll,
     hash |-> hash]

----------------------------------------------------------------------------
(* Inputs *)

Bases == {<<>>, <<"/", "x">>}

HashS == <<"#", "s">>

\* the URLs that links, goto and prefetch name: under the base "/x" the first lies
\* outside the app; the fifth has a malformed escape; the last is of another origin
Targets ==
    {Url(SelfOrigin, <<"/">>, <<>>, <<>>),
     Url(SelfOrigin, <<"/", "x">>, <<>>, <<>>),
     Url(SelfOrigin, <<"/", "x", "/", "F">>, <<>>, <<>>),
     Url(SelfOrigin, <<"/", "x", "/", "F", "/">>, <<"?", "q">>, <<>>),
     Url(SelfOrigin, <<"/", "x", "/", "%">>, <<>>, <<>>),
     Url(OtherOrigin, <<"/", "x">>, <<>>, <<>>)}

\* the URL the document was loaded from: the app's root
StartUrl(b) == Url(SelfOrigin, IF b = <<>> THEN <<"/">> ELSE b, <<>>, <<>>)

\* the session history the document finds when it loads: its own entry alone, or
\* (after a reload) the entries an earlier run of the app left, states included
StartHistories(b) ==
    {[entries |-> <<Entry(StartUrl(b), NullState)>>, index |-> 1]}
    \cup {[entries |-> <<Entry(StartUrl(b), ScrollState([x |-> 0, y |-> MaxScroll])),
                         Entry(Url(SelfOrigin, <<"/", "x", "/", "F", "/">>, <<"?", "q">>, <<>>),
                               EmptyState)>>,
           index   |-> i] : i \in {1, 2}}

\* what an href can name, seen from the current location
Hrefs == Targets \cup {Location, [Location EXCEPT !.hash = HashS]}

NoHref == Url("", <<>>, <<>>, <<>>)

\* an <a> element: href ("" when it has none) and the attributes the router reads
Anchor(href, download, external, target, noscroll, prefetch_marker) ==
    [href |-> href, download |-> download, external |-> external, target |-> target,
     noscroll |-> noscroll, prefetch |-> prefetch_marker]

Link(href) == Anchor(href, FALSE, FALSE, FALSE, FALSE, FALSE)

NoAnchor == [href |-> NoHref]

\* a click event: primary is button = 0 and which = 1; anchor is find_anchor(target)
MouseEvent(primary, modifier, defaultPrevented, anchor) ==
    [primary |-> primary, modifier |-> modifier, defaultPrevented |-> defaultPrevented,
     anchor |-> anchor]

\* the clicks of the model: plain clicks on every href, and clicks that differ from a
\* plain one in one respect, on the current location and on every target
ClickEvents ==
    {MouseEvent(TRUE, FALSE, FALSE, [Link(u) EXCEPT !.noscroll = ns]) :
        u \in Hrefs, ns \in BOOLEAN}
    \cup {MouseEvent(FALSE, FALSE, FALSE, Link(u)) : u \in {Location}}
    \cup {MouseEvent(TRUE, TRUE, FALSE, Link(u)) : u \in {Location}}
    \cup {MouseEvent(TRUE, FALSE, TRUE, Link(u)) : u \in {Location}}
    \cup {MouseEvent(TRUE, FALSE, FALSE, NoAnchor), MouseEvent(TRUE, FALSE, FALSE, Link(NoHref))}
    \cup {MouseEvent(TRUE, FALSE, FALSE, [Link(u) EXCEPT !.download = TRUE]) : u \in Hrefs}
    \cup {MouseEvent(TRUE, FALSE, FALSE, [Link(u) EXCEPT !.external = TRUE]) : u \in Hrefs}
    \cup {MouseEvent(TRUE, FALSE, FALSE, [Link(u) EXCEPT !.target = TRUE]) : u \in Hrefs}

\* the anchors the pointer can be over: with the prefetch marker, or without
HoverAnchors ==
    {[Link(u) EXCEPT !.prefetch = TRUE] : u \in Targets}
    \cup {Link(Location), NoAnchor, Link(NoHref)}

\* goto(href, {noscroll, replaceState}, chain); a redirect passes its chain and
\* replaces the entry
GotoCalls ==
    {[href |-> u, noscroll |-> ns, replaceState |-> FALSE, chain |-> <<>>] :
        u \in Hrefs, ns \in BOOLEAN}
    \cup {[href |-> u, noscroll |-> FALSE, replaceState |-> TRUE, chain |-> <<"/">>] :
        u \in Hrefs}

----------------------------------------------------------------------------
(* _navigate and prefetch *)

\* the step without its assignment to info.path
rewritten_KeepsPath(info, path1) == info

\* the step rewriting the id along with the path
rewritten_NewId(info, path1) ==
    [info EXCEPT !.path = path1, !.id = path1 \o <<"?">> \o QueryString(info.query)]

\* info.path = ...: the step rewrites the path of the info and leaves its id
rewritten(info, path1) == [info EXCEPT !.path = path1]

\* Router._navigate up to its await, on the history h the caller left: the history
\* afterwards, the calls made, and the task awaiting renderer.update (none when the
\* promise is rejected at once)
navigate(h, url, scroll, chain, hash, src) ==
    LET loc  == h.entries[h.index].url
        info == parse(url)
    IN  IF info.kind = "absent" THEN
            [h |-> h, fx |-> <<Fx("reject", "ownership")>>, started |-> <<>>]
        ELSE IF info.kind = "URIError" THEN
            [h |-> h, fx |-> <<Fx("reject", "URIError")>>, started |-> <<>>]
        ELSE
            LET path1   == TrailingSlashStep(info.path, trailing_slash)
                rewrite == Rewrites(info.path, trailing_slash)
                target  == Resolve(loc, path1, loc.search)
                info1   == rewritten(info, path1)
            IN  IF rewrite /\ ~target.ok THEN
                    [h |-> h, fx |-> <<Fx("reject", "SecurityError")>>, started |-> <<>>]
                ELSE
                    [h  |-> IF rewrite THEN ReplaceState(h, EmptyState, target.url) ELSE h,
                     fx |-> (IF rewrite
                             THEN <<Fx("replaceState", Entry(target.url, EmptyState))>>
                             ELSE <<>>)
                            \o <<Fx("notify", [path |-> path1, query |-> info.query]),
                                 Fx("update", [info |-> info1, chain |-> chain,
                                               noscroll |-> FALSE])>>,
                     started |-> <<Task("navigate", src, url, info1, scroll, hash)>>]

\* Router.prefetch: the calls made and the task awaiting renderer.load
prefetch_call(url, src) ==
    LET info == parse(url)
    IN  IF info.kind = "URIError" THEN
            [fx |-> <<Fx("reject", "URIError")>>, started |-> <<>>]
        ELSE IF info.kind = "absent" THEN
            [fx |-> <<Fx("reject", "ownership")>>, started |-> <<>>]
        ELSE IF ~inited THEN
            \* this.renderer is undefined
            [fx |-> <<Fx("reject", "TypeError")>>, started |-> <<>>]
        ELSE
            [fx |-> <<Fx("load", info)>>,
             started |-> <<Task("load", src, url, info, NoScroll, <<>>)>>]

\* trigger_prefetch(event)
trigger_prefetch(a, src) ==
    IF a # NoAnchor /\ a.href # NoHref /\ a.prefetch
    THEN prefetch_call(a.href, src)
    ELSE [fx |-> <<>>, started |-> <<>>]

----------------------------------------------------------------------------
(* The router and the browser events it handles *)

\* same document, another fragment: the browser scrolls instead of loading
IsFragmentNav(url) ==
    /\ [url EXCEPT !.hash = <<>>] = [Location EXCEPT !.hash = <<>>]
    /\ url.hash # <<>>

\* no handler runs once the document is gone, nor between an event and the
\* same-document navigation that is its default action
Ready ==
    /\ budget > 0
    /\ ~unloaded
    /\ ~(native.pending /\ IsFragmentNav(native.url))

\* one handler run is spent
Tick == budget' = budget - 1

\* the scroll listener without its clearTimeout
scroll_listener_NoClear(pending) == pending + 1

\* the scroll listener: clearTimeout(scroll_timer) cancels the timeout set last when
\* it is still pending, and setTimeout adds one
scroll_listener(pending) == (IF pending > 0 THEN pending - 1 ELSE 0) + 1

\* handle_mousemove's clearTimeout(mousemove_timeout) and setTimeout: timeouts of
\* one delay fire in the order they were set, so the one set last is the last pending
mousemove_listener(pending, a) ==
    (IF pending = <<>> THEN pending ELSE DropLast(pending)) \o <<a>>

\* window.scrollTo(pos): a changed offset fires a scroll event at the scroll
\* listener init installed
ScrollTo(pos) ==
    /\ page' = pos
    /\ scroll_timer' = IF pos # page /\ inited THEN scroll_listener(scroll_timer)
                       ELSE scroll_timer

\* the state the constructor leaves, with n handler runs to come
Start(n) ==
    /\ base \in Bases
    /\ trailing_slash \in Policies
    /\ enabled = FALSE
    /\ inited = FALSE
    /\ \E h \in StartHistories(base) :
           /\ entries = h.entries
           /\ index = h.index
    /\ page = [x |-> 0, y |-> 0]
    /\ scroll_timer = 0
    /\ mousemove_timeout = NoTimer
    /\ tasks = <<>>
    /\ native = NoNative
    /\ unloaded = FALSE
    /\ op = [name |-> "constructor"]
    /\ fx = <<>>
    /\ budget = n
    /\ probe_url = StartUrl(base)
    /\ probe_out = Unparsed
    /\ probe_norm = <<>>

Init == Start(MaxSteps)

\* Router.init
init ==
    /\ Ready
    /\ ~inited
    /\ inited' = TRUE
    /\ enabled' = TRUE
    /\ LET state == IF HistoryState.null THEN EmptyState ELSE HistoryState
           h     == ReplaceState(History, state, Location)
       IN  /\ entries' = h.entries
           /\ index' = h.index
           /\ fx' = <<Fx("replaceState", Entry(Location, state))>>
    /\ op' = [name |-> "init"]
    /\ UNCHANGED <<page, scroll_timer, mousemove_timeout, tasks, native, unloaded>>
    /\ Tick
    /\ UNCHANGED <<configVars, probeVars>>

\* Router.enable
enable ==
    /\ Ready
    /\ enabled' = TRUE
    /\ op' = [name |-> "enable"]
    /\ fx' = <<>>
    /\ UNCHANGED <<inited, entries, index, page, scroll_timer, mousemove_timeout, tasks,
                   native, unloaded>>
    /\ Tick
    /\ UNCHANGED <<configVars, probeVars>>

\* Router.disable
disable ==
    /\ Ready
    /\ enabled' = FALSE
    /\ op' = [name |-> "disable"]
    /\ fx' = <<>>
    /\ UNCHANGED <<inited, entries, index, page, scroll_timer, mousemove_timeout, tasks,
                   native, unloaded>>
    /\ Tick
    /\ UNCHANGED <<configVars, probeVars>>

\* goto's test without this.enabled
goto_in_app_IgnoresEnabled(url) == owns(url)

\* goto's test: the navigation stays in the app
goto_in_app(url) == enabled /\ owns(url)

\* goto's history call, always pushState
goto_history_AlwaysPushes(h, replaceState, url) == PushState(h, EmptyState, url)

\* history[replaceState ? 'replaceState' : 'pushState']({}, '', href)
goto_history(h, replaceState, url) ==
    IF replaceState
    THEN ReplaceState(h, EmptyState, url)
    ELSE PushState(h, EmptyState, url)

\* location.href = url.href; return new Promise(() => {}): the browser is handed the
\* navigation and the promise has no resolver
hard_navigation(url) ==
    [fx      |-> <<Fx("assign", url)>>,
     native  |-> [pending |-> TRUE, url |-> url],
     started |-> <<Task("never", "goto", url, Absent, NoScroll, <<>>)>>]

\* Router.goto
goto(call) ==
    /\ Ready
    /\ LET url == call.href
       IN  IF goto_in_app(url) THEN
               /\ LET h1  == goto_history(History, call.replaceState, url)
                      nav == navigate(h1, url,
                                      IF call.noscroll THEN scroll_state ELSE NoScroll,
                                      call.chain, url.hash, "goto")
                  IN  /\ entries' = nav.h.entries
                      /\ index' = nav.h.index
                      /\ fx' = <<Fx(IF call.replaceState THEN "replaceState" ELSE "pushState",
                                    Entry(url, EmptyState))>> \o nav.fx
                      /\ tasks' = tasks \o nav.started
                      /\ native' = native
           ELSE
               /\ native' = hard_navigation(url).native
               /\ fx' = hard_navigation(url).fx
               /\ tasks' = tasks \o hard_navigation(url).started
               /\ UNCHANGED <<entries, index>>
    /\ op' = [name |-> "goto", call |-> call]
    /\ UNCHANGED <<enabled, inited, page, scroll_timer, mousemove_timeout, unloaded>>
    /\ Tick
    /\ UNCHANGED <<configVars, probeVars>>

\* Router.prefetch, called by the application
prefetch(url) ==
    /\ Ready
    /\ LET r == prefetch_call(url, "prefetch")
       IN  /\ fx' = r.fx
           /\ tasks' = tasks \o r.started
    /\ op' = [name |-> "prefetch", url |-> url]
    /\ UNCHANGED <<enabled, inited, entries, index, page, scroll_timer, mousemove_timeout,
                   native, unloaded>>
    /\ Tick
    /\ UNCHANGED <<configVars, probeVars>>

\* the comparison of the click listener, hashes left out
same_location_IgnoresHash(href) ==
    [href EXCEPT !.hash = <<>>] = [Location EXCEPT !.hash = <<>>]

\* href === location.href
same_location(href) == href = Location

Nothing == [prevented |-> FALSE, pushes |-> FALSE, fx |-> <<>>, h |-> History, started |-> <<>>]

\* the click listener init installs: whether it called preventDefault, the calls it
\* made, the history it left and the navigation it started
click_listener(event) ==
    LET a == event.anchor
    IN  IF ~enabled THEN Nothing
        ELSE IF ~event.primary THEN Nothing
        ELSE IF event.modifier THEN Nothing
        ELSE IF event.defaultPrevented THEN Nothing
        ELSE IF a = NoAnchor THEN Nothing
        ELSE IF a.href = NoHref THEN Nothing
        ELSE IF same_location(a.href) THEN
            IF Location.hash = <<>>
            THEN [Nothing EXCEPT !.prevented = TRUE, !.fx = <<Fx("preventDefault", <<>>)>>]
            ELSE Nothing
        ELSE IF a.download \/ a.external THEN Nothing
        ELSE IF a.target THEN Nothing
        ELSE IF ~owns(a.href) THEN Nothing
        ELSE
            LET url == a.href
                nav == navigate(PushState(History, EmptyState, url), url,
                                IF a.noscroll THEN scroll_state ELSE NoScroll,
                                <<>>, url.hash, "click")
            IN  [prevented |-> TRUE,
                 pushes    |-> TRUE,
                 fx        |-> <<Fx("pushState", Entry(url, EmptyState))>> \o nav.fx
                               \o <<Fx("preventDefault", <<>>)>>,
                 h         |-> nav.h,
                 started   |-> nav.started]

\* the browser's default action for a click nobody prevented: it follows the link
\* in this browsing context
Follows(event, prevented) ==
    /\ event.primary /\ ~event.modifier /\ ~event.defaultPrevented /\ ~prevented
    /\ event.anchor # NoAnchor
    /\ event.anchor.href # NoHref
    /\ ~event.anchor.download /\ ~event.anchor.target

\* a click event, dispatched to the listener
click(event) ==
    /\ Ready
    /\ inited
    /\ LET r == click_listener(event)
       IN  /\ entries' = r.h.entries
           /\ index' = r.h.index
           /\ fx' = r.fx
           /\ tasks' = tasks \o r.started
           /\ native' = IF Follows(event, r.prevented)
                        THEN [pending |-> TRUE, url |-> event.anchor.href]
                        ELSE native
    /\ op' = [name |-> "click", event |-> event]
    /\ UNCHANGED <<enabled, inited, page, scroll_timer, mousemove_timeout, unloaded>>
    /\ Tick
    /\ UNCHANGED <<configVars, probeVars>>

\* the popstate listener's test without this.enabled
popstate_handles_IgnoresEnabled(state) == ~state.null

\* the popstate listener's test: event.state && this.enabled
popstate_handles(state) == ~state.null /\ enabled

\* the user goes back (delta = -1) or forward (1): the browser moves to that entry
\* and fires popstate with the entry's state at the listener init installed
popstate(delta) ==
    /\ Ready
    /\ index + delta \in 1..Len(entries)
    /\ LET h1    == [entries |-> entries, index |-> index + delta]
           state == entries[index + delta].state
           url   == entries[index + delta].url
       IN  IF inited /\ popstate_handles(state) THEN
               /\ LET nav == navigate(h1, url, state.scroll, <<>>, <<>>, "popstate")
                  IN  /\ entries' = nav.h.entries
                      /\ index' = nav.h.index
                      /\ fx' = nav.fx
                      /\ tasks' = tasks \o nav.started
           ELSE
               /\ entries' = entries
               /\ index' = index + delta
               /\ fx' = <<>>
               /\ tasks' = tasks
    /\ op' = [name |-> "popstate", delta |-> delta]
    /\ UNCHANGED <<enabled, inited, page, scroll_timer, mousemove_timeout, native, unloaded>>
    /\ Tick
    /\ UNCHANGED <<configVars, probeVars>>

\* the user scrolls; the scroll listener init installs rearms its timer
scroll(pos) ==
    /\ Ready
    /\ pos # page
    /\ page' = pos
    /\ scroll_timer' = IF inited THEN scroll_listener(scroll_timer) ELSE scroll_timer
    /\ op' = [name |-> "scroll", cancelled |-> inited /\ scroll_timer > 0]
    /\ fx' = <<>>
    /\ UNCHANGED <<enabled, inited, entries, index, mousemove_timeout, tasks, native, unloaded>>
    /\ Tick
    /\ UNCHANGED <<configVars, probeVars>>

\* the scroll listener's timeout, 50 ms after the last scroll event
scroll_timeout ==
    /\ Ready
    /\ scroll_timer > 0
    /\ scroll_timer' = scroll_timer - 1
    /\ LET new_state == ScrollState(scroll_state)
           h         == ReplaceState(History, new_state, Location)
       IN  /\ entries' = h.entries
           /\ index' = h.index
           /\ fx' = <<Fx("replaceState", Entry(Location, new_state))>>
    /\ op' = [name |-> "scroll_timeout"]
    /\ UNCHANGED <<enabled, inited, page, mousemove_timeout, tasks, native, unloaded>>
    /\ Tick
    /\ UNCHANGED <<configVars, probeVars>>

\* handle_mousemove
handle_mousemove(a) ==
    /\ Ready
    /\ inited
    /\ mousemove_timeout' = mousemove_listener(mousemove_timeout, a)
    /\ op' = [name |-> "mousemove", anchor |-> a, cancelled |-> mousemove_timeout # <<>>]
    /\ fx' = <<>>
    /\ UNCHANGED <<enabled, inited, entries, index, page, scroll_timer, tasks, native, unloaded>>
    /\ Tick
    /\ UNCHANGED <<configVars, probeVars>>

\* handle_mousemove's timeout, 20 ms after the last mousemove event
mousemove_fires ==
    /\ Ready
    /\ mousemove_timeout # <<>>
    /\ mousemove_timeout' = Tail(mousemove_timeout)
    /\ LET r == trigger_prefetch(Head(mousemove_timeout), "trigger_prefetch")
       IN  /\ fx' = r.fx
           /\ tasks' = tasks \o r.started
    /\ op' = [name |-> "mousemove_timeout", anchor |-> Head(mousemove_timeout)]
    /\ UNCHANGED <<enabled, inited, entries, index, page, scroll_timer, native, unloaded>>
    /\ Tick
    /\ UNCHANGED <<configVars, probeVars>>

\* a touchstart event, dispatched to trigger_prefetch
touchstart(a) ==
    /\ Ready
    /\ inited
    /\ LET r == trigger_prefetch(a, "trigger_prefetch")
       IN  /\ fx' = r.fx
           /\ tasks' = tasks \o r.started
    /\ op' = [name |-> "touchstart", anchor |-> a]
    /\ UNCHANGED <<enabled, inited, entries, index, page, scroll_timer, mousemove_timeout,
                   native, unloaded>>
    /\ Tick
    /\ UNCHANGED <<configVars, probeVars>>

Without(seq, i) == SubSeq(seq, 1, i - 1) \o SubSeq(seq, i + 1, Len(seq))

\* the priority with the element of the hash first
scroll_target_HashFirst(scroll_arg, hash, el) ==
    IF hash # <<>> /\ el >= 0 THEN [x |-> 0, y |-> el]
    ELSE IF scroll_arg # NoScroll THEN scroll_arg
    ELSE [x |-> 0, y |-> 0]

\* the position _navigate scrolls to; el is the offset of the element the hash names
\* (document.getElementById), -1 when there is none
scroll_target(scroll_arg, hash, el) ==
    IF scroll_arg # NoScroll THEN scroll_arg
    ELSE IF hash # <<>> /\ el >= 0 THEN [x |-> 0, y |-> el]
    ELSE [x |-> 0, y |-> 0]

\* renderer.update settles for the i-th task: _navigate resumes after its await when
\* it resolved, and rejects when it rejected
update_settles(i, resolved, el) ==
    /\ Ready
    /\ i \in 1..Len(tasks)
    /\ tasks[i].kind = "navigate"
    /\ tasks' = Without(tasks, i)
    /\ IF resolved THEN
           LET pos == scroll_target(tasks[i].scroll, tasks[i].hash, el)
           IN  /\ fx' = <<Fx("focus", <<>>), Fx("scrollTo", pos), Fx("resolve", <<>>)>>
               /\ ScrollTo(pos)
       ELSE
           /\ fx' = <<Fx("reject", "renderer")>>
           /\ UNCHANGED <<page, scroll_timer>>
    /\ op' = [name |-> "update_settles", task |-> tasks[i], resolved |-> resolved,
              el |-> el]
    /\ UNCHANGED <<enabled, inited, entries, index, mousemove_timeout, native, unloaded>>
    /\ Tick
    /\ UNCHANGED <<configVars, probeVars>>

\* renderer.load settles for the i-th task, and prefetch's promise with it
load_settles(i, resolved) ==
    /\ Ready
    /\ i \in 1..Len(tasks)
    /\ tasks[i].kind = "load"
    /\ tasks' = Without(tasks, i)
    /\ fx' = IF resolved THEN <<Fx("resolve", tasks[i].info)>>
             ELSE <<Fx("reject", "renderer")>>
    /\ op' = [name |-> "load_settles", task |-> tasks[i], resolved |-> resolved]
    /\ UNCHANGED <<enabled, inited, entries, index, page, scroll_timer, mousemove_timeout,
                   native, unloaded>>
    /\ Tick
    /\ UNCHANGED <<configVars, probeVars>>

\* the browser carries out a navigation handed to it (a followed link, an assigned
\* location.href): to another fragment of this document it adds an entry with no
\* state and scrolls; anything else replaces the document
browser_navigates(el) ==
    /\ ~unloaded
    /\ native.pending
    /\ native' = NoNative
    /\ IF IsFragmentNav(native.url) THEN
           /\ LET h == IF native.url = Location THEN History
                       ELSE PushState(History, NullState, native.url)
              IN  /\ entries' = h.entries
                  /\ index' = h.index
           /\ ScrollTo(scroll_target(NoScroll, native.url.hash, el))
           /\ unloaded' = FALSE
       ELSE
           /\ unloaded' = TRUE
           /\ UNCHANGED <<entries, index, page, scroll_timer>>
    /\ op' = [name |-> "browser_navigates"]
    /\ fx' = <<>>
    /\ UNCHANGED <<enabled, inited, mousemove_timeout, tasks>>
    /\ UNCHANGED budget
    /\ UNCHANGED <<configVars, probeVars>>

Elements == {-1} \cup (0..MaxScroll)

\* the hrefs of plain links, and the calls and anchors of a plain application
PlainClicks == {MouseEvent(TRUE, FALSE, FALSE, Link(u)) : u \in Hrefs}
PlainGotos  == {c \in GotoCalls : ~c.noscroll}
FewTargets  == {Url(SelfOrigin, <<"/", "x", "/", "F">>, <<>>, <<>>),
                Url(OtherOrigin, <<"/", "x">>, <<>>, <<>>)}
FewAnchors  == {[Link(u) EXCEPT !.prefetch = TRUE] : u \in FewTargets}

\* every operation of the router, on the plain inputs
Next ==
    \/ init
    \/ enable
    \/ disable
    \/ \E call \in PlainGotos : goto(call)
    \/ \E url \in FewTargets : prefetch(url)
    \/ \E event \in PlainClicks : click(event)
    \/ \E delta \in {-1, 1} : popstate(delta)
    \/ \E pos \in Positions : scroll(pos)
    \/ scroll_timeout
    \/ \E a \in FewAnchors : handle_mousemove(a)
    \/ mousemove_fires
    \/ \E a \in FewAnchors : touchstart(a)
    \/ \E i \in 1..Len(tasks), resolved \in BOOLEAN, el \in Elements :
           update_settles(i, resolved, el)
    \/ \E i \in 1..Len(tasks), resolved \in BOOLEAN : load_settles(i, resolved)
    \/ \E el \in Elements : browser_navigates(el)

Spec == Init /\ [][Next]_vars

\* the programmatic API, on every call
NextApi ==
    \/ init
    \/ enable
    \/ disable
    \/ \E call \in GotoCalls : goto(call)
    \/ \E url \in Targets : prefetch(url)
    \/ \E i \in 1..Len(tasks), resolved \in BOOLEAN, el \in Elements :
           update_settles(i, resolved, el)
    \/ \E i \in 1..Len(tasks), resolved \in BOOLEAN : load_settles(i, resolved)
    \/ \E el \in Elements : browser_navigates(el)

SpecApi == Init /\ [][NextApi]_vars

\* the click and popstate listeners, on every click
NextClick ==
    \/ init
    \/ enable
    \/ disable
    \/ \E event \in ClickEvents : click(event)
    \/ \E delta \in {-1, 1} : popstate(delta)
    \/ \E i \in 1..Len(tasks), resolved \in BOOLEAN, el \in Elements :
           update_settles(i, resolved, el)
    \/ \E el \in Elements : browser_navigates(el)

SpecClick == Init /\ [][NextClick]_vars

\* the links of a session: one that the policy never rewrites, one that always does
SessionClicks ==
    {MouseEvent(TRUE, FALSE, FALSE, Link(u)) :
        u \in {Url(SelfOrigin, <<"/", "x", "/", "F">>, <<>>, <<>>),
               Url(SelfOrigin, <<"/", "x", "/", "F", "/">>, <<"?", "q">>, <<>>)}}

InitSession == Start(MaxSteps + 1)

\* a longer session of a user who follows links, goes back and forward, and scrolls
NextSession ==
    \/ init
    \/ \E event \in SessionClicks : click(event)
    \/ \E delta \in {-1, 1} : popstate(delta)
    \/ \E pos \in Positions : scroll(pos)
    \/ scroll_timeout
    \/ \E i \in 1..Len(tasks), resolved \in BOOLEAN, el \in Elements :
           update_settles(i, resolved, el)

SpecSession == InitSession /\ [][NextSession]_vars

----------------------------------------------------------------------------
(* owns, parse and the trailing-slash step, applied to every URL of a bounded set *)

PathChars == {"/", ".", "x", "%", "2", "F"}

\* the URL parser leaves no "." or ".." segment in a pathname
IsPathname(p) ==
    /\ Len(p) > 0 /\ p[1] = "/"
    /\ LET pieces == Split(Tail(p), "/")
       IN  \A k \in 1..Len(pieces) : pieces[k] \notin {<<".">>, <<".", ".">>}

Pathnames(n) ==
    {p \in {<<"/">> \o t : t \in UNION {[1..k -> PathChars] : k \in 0..n}} : IsPathname(p)}

Searches == {<<>>, <<"?", "q">>, <<"?", "q", "=", "1">>, <<"?", "q", "=", "1", "&", "q">>}

ProbeUrls ==
    {Url(SelfOrigin, p, <<>>, <<>>) : p \in Pathnames(MaxLen)}
    \cup {Url(o, p, q, h) : o \in {SelfOrigin, OtherOrigin}, p \in Pathnames(2),
                            q \in Searches, h \in {<<>>, HashS}}

InitPure ==
    /\ base \in Bases
    /\ trailing_slash \in Policies
    /\ enabled = FALSE
    /\ inited = FALSE
    /\ entries = <<Entry(StartUrl(base), NullState)>>
    /\ index = 1
    /\ page = [x |-> 0, y |-> 0]
    /\ scroll_timer = 0
    /\ mousemove_timeout = NoTimer
    /\ tasks = <<>>
    /\ native = NoNative
    /\ unloaded = FALSE
    /\ op = [name |-> "constructor"]
    /\ fx = <<>>
    /\ budget = 0
    /\ probe_url \in ProbeUrls
    /\ probe_out = Unparsed
    /\ probe_norm = <<>>

\* info = this.parse(url)
probe_parse ==
    /\ probe_out = Unparsed
    /\ probe_out' = parse(probe_url)
    /\ UNCHANGED <<probe_url, probe_norm, configVars, routerVars>>

\* the trailing-slash step of _navigate on info.path, and once more on its result
probe_step ==
    /\ probe_out.kind = "info"
    /\ Len(probe_norm) < 2
    /\ probe_norm' = Append(probe_norm,
                            TrailingSlashStep(IF probe_norm = <<>> THEN probe_out.path
                                              ELSE probe_norm[Len(probe_norm)],
                                              trailing_slash))
    /\ UNCHANGED <<probe_url, probe_out, configVars, routerVars>>

NextPure == probe_parse \/ probe_step

SpecPure == InitPure /\ [][NextPure]_vars

----------------------------------------------------------------------------
(* C1 - C3: owns, parse and the trailing-slash step (SpecPure) *)

\* the origin and base test of the claims, spelled out on the URL
OriginAndBaseMatch(u) ==
    /\ u.origin = SelfOrigin
    /\ Len(u.pathname) >= Len(base)
    /\ \A k \in 1..Len(base) : u.pathname[k] = base[k]

\* C1: parse(u) returns a NavigationInfo exactly when u has the current origin and a
\* pathname that starts with base (which is when owns(u) holds), and then its path is
\* the decoded pathname without the base prefix, or '/' when nothing remains; parse
\* of a URL of another origin is absent.
C1_ParseIffOwned ==
    probe_out # Unparsed =>
        /\ owns(probe_url) <=> OriginAndBaseMatch(probe_url)
        /\ (probe_out.kind = "info") <=> OriginAndBaseMatch(probe_url)
        /\ ~OriginAndBaseMatch(probe_url) => probe_out = Absent
        /\ probe_out.kind = "info" =>
               LET rest == SubSeq(probe_url.pathname, Len(base) + 1, Len(probe_url.pathname))
               IN  probe_out.path = IF rest = <<>> THEN <<"/">>
                                    ELSE DecodeURIComponent(rest).val

\* the part after the last '/' of p holds a '.'
FinalSegmentHasDot(p) ==
    \E i \in 1..Len(p) :
        /\ p[i] = "."
        /\ \A j \in i..Len(p) : p[j] # "/"

\* C2: the trailing-slash step leaves '/' alone under every policy; 'never' takes
\* the final slash off a path that ends in one; 'always' appends a slash to a path
\* that ends in none, unless its final segment contains '.'; 'ignore' changes nothing.
C2_TrailingSlashStep ==
    Len(probe_norm) >= 1 =>
        LET p == probe_out.path
            q == probe_norm[1]
        IN  /\ p = <<"/">> => q = p
            /\ trailing_slash = "ignore" => q = p
            /\ trailing_slash = "never" /\ p # <<"/">> =>
                   q = IF p[Len(p)] = "/" THEN SubSeq(p, 1, Len(p) - 1) ELSE p
            /\ trailing_slash = "always" /\ p # <<"/">> =>
                   q = IF p[Len(p)] # "/" /\ ~FinalSegmentHasDot(p)
                       THEN p \o <<"/">> ELSE p

\* a path of two segments got its slash under 'always', and one whose final segment
\* holds a '.' was left alone
C2_Witness ==
    /\ Len(probe_norm) >= 1
    /\ trailing_slash = "always"
    /\ \/ probe_out.path = <<"/", "x", "/", "x">> /\ probe_norm[1] = <<"/", "x", "/", "x", "/">>
       \/ probe_out.path = <<"/", "x", ".", "x">> /\ probe_norm[1] = probe_out.path

\* C3: the trailing-slash step is idempotent: applied to its own result it changes
\* nothing.
C3_StepIdempotent ==
    Len(probe_norm) = 2 => probe_norm[2] = probe_norm[1]

----------------------------------------------------------------------------
(* C4 - C6, C9: goto and prefetch (SpecApi) *)

HistoryCalls(effects) ==
    SelectSeq(effects, LAMBDA e : e.call \in {"pushState", "replaceState"})

RendererCalls(effects) ==
    SelectSeq(effects, LAMBDA e : e.call \in {"notify", "update", "load"})

Pending(ts, kind) == SelectSeq(ts, LAMBDA t : t.kind = kind)

\* C4: goto on a target the app does not own, or while the router is not enabled
\* (before init too), assigns the URL to location.href, calls neither pushState nor
\* replaceState nor the renderer, and returns a promise that stays pending in every
\* later state.
C4_HardNavigationNeverSettles ==
    [][/\ (op'.name = "goto" /\ ~(enabled /\ OriginAndBaseMatch(op'.call.href))) =>
              /\ fx' = <<Fx("assign", op'.call.href)>>
              /\ entries' = entries /\ index' = index
              /\ Len(tasks') = Len(tasks) + 1
              /\ SubSeq(tasks', 1, Len(tasks)) = tasks
              /\ tasks'[Len(tasks')].kind = "never"
              /\ tasks'[Len(tasks')].src = "goto"
       /\ \A i \in 1..Len(tasks) : tasks[i].kind = "never" =>
              /\ Len(tasks') >= Len(Pending(SubSeq(tasks, 1, i), "never"))
              /\ Pending(tasks', "never")[Len(Pending(SubSeq(tasks, 1, i), "never"))] = tasks[i]
       /\ op'.name \in {"update_settles", "load_settles"} => op'.task.kind # "never"
      ]_vars

\* the router was disabled after init, and goto to a URL of the app left the page
C4_Witness ==
    /\ op.name = "goto"
    /\ inited /\ ~enabled
    /\ OriginAndBaseMatch(op.call.href)
    /\ fx = <<Fx("assign", op.call.href)>>
    /\ Len(Pending(tasks, "never")) > 0

\* C5: goto on an owned target while the router is enabled makes one history call
\* for the target, before _navigate runs: pushState (one entry added after the
\* current one) when replaceState is false, replaceState (as many entries as before)
\* when it is true; it never assigns location.href, and its promise is the one of
\* that _navigate: rejected at once when _navigate is, else settled when
\* renderer.update settles.
C5_GotoInApp ==
    [][/\ (op'.name = "goto" /\ enabled /\ OriginAndBaseMatch(op'.call.href)) =>
              LET c == op'.call
              IN  /\ Len(fx') >= 2
                  /\ fx'[1] = Fx(IF c.replaceState THEN "replaceState" ELSE "pushState",
                                 Entry(c.href, EmptyState))
                  /\ Len(Calls(fx', "pushState")) = IF c.replaceState THEN 0 ELSE 1
                  /\ \A k \in 2..Len(fx') : fx'[k].call = "replaceState" =>
                         /\ k = 2
                         /\ fx'[k].arg.url # c.href
                  /\ IF c.replaceState
                     THEN Len(entries') = Len(entries) /\ index' = index
                     ELSE /\ index' = index + 1
                          /\ Len(entries') = index + 1
                          /\ SubSeq(entries', 1, index) = SubSeq(entries, 1, index)
                  /\ Calls(fx', "assign") = <<>>
                  /\ native' = native
                  /\ \/ /\ fx'[Len(fx')].call = "reject"
                        /\ RendererCalls(fx') = <<>>
                        /\ tasks' = tasks
                     \/ /\ fx'[Len(fx')].call = "update"
                        /\ Calls(fx', "reject") = <<>>
                        /\ Len(tasks') = Len(tasks) + 1
                        /\ SubSeq(tasks', 1, Len(tasks)) = tasks
                        /\ tasks'[Len(tasks')].kind = "navigate"
                        /\ tasks'[Len(tasks')].src = "goto"
       /\ (op'.name = "update_settles" /\ op'.task.src = "goto") =>
              /\ fx'[Len(fx')].call = IF op'.resolved THEN "resolve" ELSE "reject"
              /\ Len(tasks') = Len(tasks) - 1
      ]_vars

\* goto with replaceState replaced the second of two entries and awaits the renderer
C5_Witness ==
    /\ op.name = "goto"
    /\ op.call.replaceState
    /\ enabled
    /\ Len(entries) = 2 /\ index = 2
    /\ fx[1] = Fx("replaceState", Entry(op.call.href, EmptyState))
    /\ Len(Pending(tasks, "navigate")) = 1

\* what parse is to return for an owned URL
ClaimedInfo(u) ==
    LET rest == SubSeq(u.pathname, Len(base) + 1, Len(u.pathname))
        path == IF rest = <<>> THEN <<"/">> ELSE DecodeURIComponent(rest).val
    IN  [path |-> path, query |-> QueryPairs(u.search)]

\* C6: once init has bound the renderer, prefetch of a URL the app does not own
\* fails without a call of renderer.load; prefetch of an owned URL calls
\* renderer.load once, with parse(url), and yields what that call yields; neither
\* calls renderer.notify or renderer.update.
C6_Prefetch ==
    /\ (op.name = "prefetch" /\ inited) =>
           /\ Calls(fx, "notify") = <<>> /\ Calls(fx, "update") = <<>>
           /\ IF OriginAndBaseMatch(op.url)
              THEN /\ Len(fx) = 1
                   /\ fx[1].call = "load"
                   /\ fx[1].arg.path = ClaimedInfo(op.url).path
                   /\ fx[1].arg.query = ClaimedInfo(op.url).query
                   /\ Len(tasks) > 0
                   /\ tasks[Len(tasks)].kind = "load"
                   /\ tasks[Len(tasks)].info = fx[1].arg
              ELSE /\ fx = <<Fx("reject", "ownership")>>
    /\ (op.name = "load_settles" /\ op.task.src = "prefetch") =>
           fx = IF op.resolved THEN <<Fx("resolve", op.task.info)>>
                ELSE <<Fx("reject", "renderer")>>

\* C9: when prefetch(u) of an owned URL awaits renderer.load and goto(u) is called
\* with the router enabled, neither fails with the ownership error, goto goes on to
\* renderer.update unless _navigate is rejected for another reason, and the info
\* given to update has the id of the info given to load.
C9_PrefetchThenGoto ==
    \A i \in 1..Len(tasks) :
        (/\ op.name = "goto"
         /\ enabled
         /\ tasks[i].kind = "load"
         /\ tasks[i].src = "prefetch"
         /\ tasks[i].url = op.call.href) =>
            /\ OriginAndBaseMatch(op.call.href)
            /\ \A k \in 1..Len(fx) : fx[k] # Fx("reject", "ownership")
            /\ \A k \in 1..Len(fx) : fx[k].call = "update" =>
                   fx[k].arg.info.id = tasks[i].info.id
            /\ Calls(fx, "update") # <<>> \/ Calls(fx, "reject") # <<>>

\* goto overtook a pending prefetch of the same URL, and the trailing-slash step
\* changed the path renderer.update gets
C9_Witness ==
    \E i \in 1..Len(tasks) :
        /\ op.name = "goto"
        /\ enabled
        /\ tasks[i].kind = "load"
        /\ tasks[i].src = "prefetch"
        /\ tasks[i].url = op.call.href
        /\ Calls(fx, "update") # <<>>
        /\ Calls(fx, "update")[1].arg.info.path # tasks[i].info.path
        /\ Calls(fx, "update")[1].arg.info.id = tasks[i].info.id

----------------------------------------------------------------------------
(* C7: the history (Spec) *)

\* the step called pushState: an intercepted click, or goto without replaceState
Pushing(name, call, effects) ==
    /\ Calls(effects, "pushState") # <<>>
    /\ \/ name = "click"
       \/ name = "goto" /\ ~call.replaceState

\* C7: over the operations of the router (a navigation the browser carries out
\* itself is not one), the number of history entries grows only in an intercepted
\* click or a goto without replaceState, each with one pushState that adds one
\* entry after the current one; init, the scroll persistence, goto with
\* replaceState, the trailing-slash rewrite and prefetch (called, or triggered by
\* hover or touch) leave the length and the current index as they are, the popstate
\* listener leaves the length and the index the traversal arrived at, and prefetch
\* makes no history call, no scroll and no focus change.
C7_HistoryFrame ==
    [][LET name == op'.name
           pushing == Pushing(name, IF name = "goto" THEN op'.call ELSE <<>>, fx')
       IN  name # "browser_navigates" =>
               /\ Len(entries') > Len(entries) => pushing
               /\ pushing =>
                      /\ Len(Calls(fx', "pushState")) = 1
                      /\ index' = index + 1
                      /\ Len(entries') = index + 1
                      /\ SubSeq(entries', 1, index) = SubSeq(entries, 1, index)
               /\ (~pushing /\ name # "popstate") =>
                      /\ Len(entries') = Len(entries)
                      /\ index' = index
               /\ name = "popstate" =>
                      /\ Len(entries') = Len(entries)
                      /\ index' = index + op'.delta
               /\ name \in {"init", "scroll_timeout"} =>
                      /\ Len(HistoryCalls(fx')) = 1
                      /\ fx'[1].call = "replaceState"
                      /\ fx'[1].arg.url = entries[index].url
               /\ name \in {"prefetch", "mousemove", "mousemove_timeout", "touchstart",
                            "load_settles"} =>
                      /\ entries' = entries /\ index' = index
                      /\ page' = page /\ scroll_timer' = scroll_timer
                      /\ HistoryCalls(fx') = <<>>
                      /\ Calls(fx', "scrollTo") = <<>>
                      /\ Calls(fx', "focus") = <<>>
      ]_vars

\* forward to the second of two entries, where the popstate listener navigated and
\* _navigate rewrote the URL: two entries still
C7_Witness ==
    /\ op.name = "popstate"
    /\ op.delta = 1
    /\ Calls(fx, "replaceState") # <<>>
    /\ Calls(fx, "update") # <<>>
    /\ Len(entries) = 2 /\ index = 2

----------------------------------------------------------------------------
(* C8, C10: the listeners (SpecClick) *)

\* a click the listener's first tests let through, on an anchor with an href
Eligible(event) ==
    /\ enabled
    /\ event.primary /\ ~event.modifier /\ ~event.defaultPrevented
    /\ event.anchor # NoAnchor
    /\ event.anchor.href # NoHref

WithoutHash(u) == [u EXCEPT !.hash = <<>>]

\* href and the current location differ, and in the hash only
HashOnlyChange(href) ==
    /\ href # NoHref
    /\ href # Location
    /\ WithoutHash(href) = WithoutHash(Location)

\* an owned link with none of download, rel=external and target
OwnedPlainLink(a) ==
    /\ ~a.download /\ ~a.external /\ ~a.target
    /\ OriginAndBaseMatch(a.href)

\* the listener pushed the href, ran _navigate and prevented the default
Navigated(event, effects, i, i1) ==
    /\ effects[1] = Fx("pushState", Entry(event.anchor.href, EmptyState))
    /\ effects[Len(effects)] = Fx("preventDefault", <<>>)
    /\ i1 = i + 1

C10_EnabledFlag ==
    [][/\ op.name = "constructor" => ~enabled
       /\ op'.name \in {"init", "enable"} => enabled'
       /\ op'.name = "disable" => ~enabled'
       /\ op'.name \notin {"init", "enable", "disable"} => enabled' = enabled
       /\ (op'.name \in {"click", "popstate"} /\ ~enabled) =>
              /\ fx' = <<>>
              /\ entries' = entries
              /\ tasks' = tasks
              /\ page' = page
       /\ (op'.name = "click" /\ ~enabled) => index' = index
      ]_vars

\* disabled after init, the user went back to an entry with a state: nothing ran
C10_Witness ==
    /\ op.name = "popstate"
    /\ inited /\ ~enabled
    /\ ~HistoryState.null
    /\ fx = <<>>

----------------------------------------------------------------------------
(* C11: the order of _navigate's calls (Spec) *)

\* C11: a _navigate that gets as far as renderer.update has made, in this order, the
\* history call of its caller (none for popstate), the trailing-slash replaceState
\* exactly when the step changes the path, one renderer.notify with the normalized
\* path and the query, and one renderer.update(info, chain, false) with that path;
\* it has not touched focus or scroll; document.body.focus() and one scrollTo
\* follow only when that update has resolved, and an update that rejects or stays
\* pending leaves focus and scroll alone.
C11_NavigateOrder ==
    [][/\ Calls(fx', "update") # <<>> =>
              LET started == tasks'[Len(tasks')]
                  path0   == parse(started.url).path
              IN  /\ op'.name \in {"click", "popstate", "goto"}
                  /\ Len(tasks') = Len(tasks) + 1
                  /\ Len(Calls(fx', "notify")) = 1
                  /\ Len(Calls(fx', "update")) = 1
                  /\ Len(HistoryCalls(fx')) =
                         (IF op'.name = "popstate" THEN 0 ELSE 1)
                         + (IF Rewrites(path0, trailing_slash) THEN 1 ELSE 0)
                  /\ \A k \in 1..Len(fx') : fx'[k].call = "update" =>
                         /\ k = Len(HistoryCalls(fx')) + 2
                         /\ \A j \in 1..(k - 2) :
                                fx'[j].call \in {"pushState", "replaceState"}
                         /\ Rewrites(path0, trailing_slash) =>
                                fx'[k - 2].call = "replaceState"
                         /\ fx'[k - 1] =
                                Fx("notify", [path  |-> fx'[k].arg.info.path,
                                              query |-> fx'[k].arg.info.query])
                         /\ fx'[k].arg.info.path = TrailingSlashStep(path0, trailing_slash)
                         /\ fx'[k].arg.info.query = QueryPairs(started.url.search)
                         /\ fx'[k].arg.info = started.info
                         /\ fx'[k].arg.chain =
                                (IF op'.name = "goto" THEN op'.call.chain ELSE <<>>)
                         /\ fx'[k].arg.noscroll = FALSE
                  /\ Calls(fx', "focus") = <<>>
                  /\ Calls(fx', "scrollTo") = <<>>
                  /\ page' = page
       /\ (Calls(fx', "focus") # <<>> \/ Calls(fx', "scrollTo") # <<>>) =>
              /\ op'.name = "update_settles"
              /\ op'.resolved
              /\ Len(fx') = 3
              /\ fx'[1] = Fx("focus", <<>>)
              /\ fx'[2].call = "scrollTo"
              /\ page' = fx'[2].arg
       /\ (op'.name = "update_settles" /\ op'.resolved) => Len(Calls(fx', "scrollTo")) = 1
       /\ (op'.name = "update_settles" /\ ~op'.resolved) => page' = page
       /\ page' # page => op'.name \in {"scroll", "update_settles", "browser_navigates"}
      ]_vars

\* the update of a navigation whose path the step had changed resolved: focus, then
\* scrollTo
C11_Witness ==
    /\ op.name = "update_settles"
    /\ op.resolved
    /\ op.task.info.path # parse(op.task.url).path
    /\ Len(fx) = 3
    /\ fx[1].call = "focus"
    /\ fx[2].call = "scrollTo"

----------------------------------------------------------------------------
(* C12: the URLs the listeners navigate to (SpecSession) *)

\* C12: once init has run, a _navigate started by the click listener or by the
\* popstate listener is never rejected with the ownership error: the URL it is
\* given is one the app owns, entries the router wrote itself included.
C12_ListenersNavigateOwned ==
    (inited /\ op.name \in {"click", "popstate"}) =>
        \A k \in 1..Len(fx) : fx[k] # Fx("reject", "ownership")

----------------------------------------------------------------------------
(* C13: prefetch on hover and touch (Spec) *)

\* C13: trigger_prefetch drops the promise prefetch returns, so a rejection of it is
\* an unhandled one; no prefetch started by the mousemove timeout or by touchstart
\* over an anchor with the prefetch marker is rejected, neither at once (a target
\* the app does not own) nor when renderer.load rejects.
C13_TriggeredPrefetchHandled ==
    /\ op.name \in {"touchstart", "mousemove_timeout"} => Calls(fx, "reject") = <<>>
    /\ (op.name = "load_settles" /\ op.task.src = "trigger_prefetch") =>
           Calls(fx, "reject") = <<>>

----------------------------------------------------------------------------
(* C14: the URL the trailing-slash step leaves (SpecClick) *)

\* C14: when the trailing-slash step of a _navigate changed the path, it rewrote
\* the current history entry, and the location it left is owned by the app and
\* parses to the normalized path and the query of the target.
C14_RewriteKeepsCanonicalUrl ==
    (op.name \in {"click", "popstate", "goto"} /\ Calls(fx, "update") # <<>>) =>
        LET target == tasks[Len(tasks)].url
            info   == Calls(fx, "update")[1].arg.info
        IN  info.path # parse(target).path =>
                /\ \E k \in 1..Len(fx) :
                       fx[k].call = "replaceState" /\ fx[k].arg.url = Location
                /\ OriginAndBaseMatch(Location)
                /\ parse(Location).kind = "info"
                /\ parse(Location).path = info.path
                /\ parse(Location).query = QueryPairs(target.search)

----------------------------------------------------------------------------
(* C15: overlapping navigations (SpecSession) *)

\* a navigation a click or goto started: it has called pushState or replaceState
MutatedHistory(t) == t.kind = "navigate" /\ t.src \in {"click", "goto"}

\* C15: the history calls and the scrollTo of a navigation all come before those of
\* a navigation triggered later: when the update of a navigation resolves and its
\* scrollTo is made, no navigation that was started after it has called pushState
\* or replaceState yet, whichever update resolves first.
C15_MutationsInTriggerOrder ==
    [][(op'.name = "update_settles" /\ op'.resolved) =>
           \A i \in 1..Len(tasks) :
               (tasks[i] = op'.task /\ tasks' = Without(tasks, i)) =>
                   \A j \in (i + 1)..Len(tasks) : ~MutatedHistory(tasks[j])
      ]_vars

----------------------------------------------------------------------------
(* C16: the id of a NavigationInfo (SpecApi) *)

\* id as the path and the query of the info give it
IdOf(info) == info.path \o <<"?">> \o QueryString(info.query)

\* C16: every info given to renderer.load and to renderer.update, the one whose
\* path the trailing-slash step changed included, has the id path + '?' + query.
C16_IdIsPathAndQuery ==
    \A k \in 1..Len(fx) :
        /\ fx[k].call = "load" => fx[k].arg.id = IdOf(fx[k].arg)
        /\ fx[k].call = "update" => fx[k].arg.info.id = IdOf(fx[k].arg.info)

----------------------------------------------------------------------------
(* C17: the scroll position a navigation applies (SpecClick) *)

Origin == [x |-> 0, y |-> 0]

\* C17: the click listener hands _navigate the position of the page at the click
\* when the anchor has the noscroll attribute and no position otherwise, with the
\* hash of the href; the popstate listener hands it the position saved in the
\* entry's state, if any. When the update resolves, _navigate scrolls to the
\* position it was handed if there is one, hash or not; else to the element the
\* hash names (op.el is its offset, -1 when no element has that id) if the hash is
\* non-empty and the element exists; else to (0,0). So a popstate onto an entry
\* without a saved position scrolls to (0,0).
C17_ScrollPriority ==
    [][/\ (op'.name = "click" /\ Len(tasks') > Len(tasks)) =>
              LET a == op'.event.anchor
                  t == tasks'[Len(tasks')]
              IN  /\ t.scroll = IF a.noscroll THEN page ELSE NoScroll
                  /\ t.hash = a.href.hash
       /\ (op'.name = "popstate" /\ Len(tasks') > Len(tasks)) =>
              LET t == tasks'[Len(tasks')]
              IN  /\ t.src = "popstate"
                  /\ t.scroll = entries[index'].state.scroll
       /\ (op'.name = "update_settles" /\ op'.resolved) =>
              LET t   == op'.task
                  pos == Calls(fx', "scrollTo")[1].arg
              IN  /\ Len(Calls(fx', "scrollTo")) = 1
                  /\ page' = pos
                  /\ t.scroll # NoScroll => pos = t.scroll
                  /\ (t.scroll = NoScroll /\ t.hash # <<>> /\ op'.el >= 0) =>
                         pos = [x |-> 0, y |-> op'.el]
                  /\ (t.scroll = NoScroll /\ (t.hash = <<>> \/ op'.el < 0)) =>
                         pos = Origin
                  /\ (t.src = "popstate" /\ t.scroll = NoScroll) => pos = Origin
      ]_vars

\* a click on a noscroll link to a hash whose element lies elsewhere: the page stays
\* where it was at the click
C17_Witness ==
    /\ op.name = "update_settles"
    /\ op.resolved
    /\ op.task.src = "click"
    /\ op.task.hash # <<>>
    /\ op.task.scroll # NoScroll
    /\ op.el >= 0
    /\ op.el # op.task.scroll.y
    /\ page = op.task.scroll

----------------------------------------------------------------------------
(* C18: the clicks the listener intercepts (SpecClick) *)

\* the conditions of an interception
Interceptable(event) ==
    /\ event.primary /\ ~event.modifier /\ ~event.defaultPrevented
    /\ event.anchor # NoAnchor
    /\ event.anchor.href # NoHref
    /\ OwnedPlainLink(event.anchor)

\* C18: a click that is not a primary, unmodified, not yet prevented click on an
\* anchor without download, rel=external and target whose URL the app owns causes
\* no preventDefault, no history call and no renderer call, wherever its href points
\* relative to the current location.
C18_InterceptionConditions ==
    [][(op'.name = "click" /\ ~Interceptable(op'.event)) =>
           /\ fx' = <<>>
           /\ entries' = entries /\ index' = index
           /\ tasks' = tasks
      ]_vars

----------------------------------------------------------------------------
(* C19: the debounced listeners (Spec) *)

\* C19: the scroll listener and handle_mousemove each have at most one timeout
\* pending; an event that finds one pending cancels it and sets a new one; the
\* scroll timeout makes one history.replaceState, with the position the last scroll
\* event left, and the mousemove timeout runs trigger_prefetch once, for the last
\* mousemove event.
C19_Debounce ==
    [][/\ scroll_timer' <= 1
       /\ Len(mousemove_timeout') <= 1
       /\ (op'.name = "scroll" /\ inited) =>
              /\ scroll_timer' = 1
              /\ op'.cancelled <=> scroll_timer = 1
       /\ op'.name = "mousemove" =>
              /\ mousemove_timeout' = <<op'.anchor>>
              /\ op'.cancelled <=> Len(mousemove_timeout) = 1
       /\ op'.name = "scroll_timeout" =>
              /\ scroll_timer' = 0
              /\ fx' = <<Fx("replaceState", Entry(Location, ScrollState(page)))>>
              /\ entries'[index'] = Entry(Location, ScrollState(page))
       /\ op'.name = "mousemove_timeout" =>
              /\ mousemove_timeout' = <<>>
              /\ mousemove_timeout = <<op'.anchor>>
              /\ Len(fx') <= 1
              /\ Len(tasks') <= Len(tasks) + 1
              /\ \A k \in 1..Len(fx') : fx'[k].call = "load" =>
                     /\ op'.anchor.prefetch
                     /\ fx'[k].arg = parse(op'.anchor.href)
      ]_vars

\* a second scroll event found the timeout of the first pending: one is pending
C19_Witness ==
    /\ op.name = "scroll"
    /\ op.cancelled
    /\ scroll_timer = 1
    /\ inited

----------------------------------------------------------------------------
(* C20: the scroll timeout and a changed entry (SpecSession) *)

\* the last handler made another entry the current one
ChangedEntry ==
    \/ op.name = "popstate"
    \/ op.name \in {"click", "goto"} /\ Calls(fx, "pushState") # <<>>

\* C20: a scroll timeout that was pending when a click, goto or popstate made
\* another entry the current one (these set no timeout themselves) and that fires
\* next does not write into the new current entry: the entry keeps its URL and state.
C20_ScrollWriteStaysWithEntry ==
    [][(ChangedEntry /\ scroll_timer > 0 /\ op'.name = "scroll_timeout") =>
           entries'[index] = entries[index]
      ]_vars

====
